---------------------------- MODULE Spec2Model ----------------------------
(***************************************************************************)
(* A model of the Wa-Tor simulation engine of src/src/main.rs: the        *)
(* toroidal geometry, the occupancy board, the two entity lists, the      *)
(* constructor World::new and the per-tick algorithm World::update, whose  *)
(* two loops are stepped one entity at a time.                             *)
(***************************************************************************)
EXTENDS Integers, Naturals, Sequences, FiniteSets, TLC

(***************************************************************************)
(* Bounds of the model.  The program fixes the grid at 640 x 480 and runs  *)
(* until its window is closed; the model runs the same code on a small     *)
(* torus and for a few ticks: LoopRun ticks for a world requested without  *)
(* entities, LongRun ticks for a world requested with one, ShortRun ticks  *)
(* for every other world.                                                  *)
(***************************************************************************)
WIDTH == 3
HEIGHT == 3
ShortRun == 2
LongRun == 3
LoopRun == 4
MaxSide == 4
MaxLen == 3

\* TimeType = u8: the largest value a timer can hold.
U8Max == 255

Cells == WIDTH * HEIGHT

(***************************************************************************)
(* Geometry                                                                *)
(***************************************************************************)
\* The remainder of Rust's `%`, which truncates toward zero.
nudge_by_remainder(x, m) == IF x < 0 THEN 0 - ((0 - x) % m) ELSE x % m

nudge_into_range(x, m) ==
  IF x < 0 THEN x + m
  ELSE IF x >= m THEN x - m
  ELSE x

from_ix(ix) == [x |-> ix % WIDTH, y |-> ix \div WIDTH]

\* Point::offset in a build whose constants WIDTH and HEIGHT are w and h.
offset_on(w, h, p, dx, dy) ==
  [x |-> nudge_into_range(p.x + dx, w),
   y |-> nudge_into_range(p.y + dy, h)]

offset(p, dx, dy) == offset_on(WIDTH, HEIGHT, p, dx, dy)

\* The direction array of World::update, in its declared order.
Directions == << <<-1, 0>>, <<1, 0>>, <<0, -1>>, <<0, 1>> >>

\* directions.shuffle(rng): every ordering of the four directions.
Shuffles ==
  { [k \in 1..4 |-> Directions[p[k]]] :
      p \in { q \in [1..4 -> 1..4] : \A a, b \in 1..4 : q[a] = q[b] => a = b } }

(***************************************************************************)
(* Cell codes (enum Content, repr(u8)) and their bit tests                 *)
(***************************************************************************)
Empty == 0
Fish == 1
NewFish == 5
Shark == 2
NewShark == 6
FedShark == 10

Content == {Empty, Fish, NewFish, Shark, NewShark, FedShark}

is_empty(c) == c = 0
is_fish(c) == c % 2 /= 0
is_shark(c) == (c \div 2) % 2 /= 0

(***************************************************************************)
(* Board: a dense vector indexed by y * WIDTH + x                          *)
(***************************************************************************)
BoardNew == [ix \in 0..(Cells - 1) |-> Empty]

index(p) == p.y * WIDTH + p.x

get(board, p) == board[index(p)]

\* *board.get_mut(p) = c
set(board, p, c) == [board EXCEPT ![index(p)] = c]

(***************************************************************************)
(* Entities                                                                *)
(***************************************************************************)
SharkNew(pos) == [pos |-> pos, repro_time |-> 0, starve |-> 0]

\* Fish::new with a timer that has already counted one step.
FishNewAged(pos) == [pos |-> pos, repro_time |-> 1]

FishNew(pos) == [pos |-> pos, repro_time |-> 0]

(***************************************************************************)
(* Sequence helpers                                                        *)
(***************************************************************************)
Range(s) == { s[k] : k \in 1..Len(s) }

(***************************************************************************)
(* clear_by_cond: the swap_remove loop.  `remove` is the set of values on  *)
(* which should_remove answers true.                                       *)
(***************************************************************************)
swap_remove(vec, k) ==
  [j \in 1..(Len(vec) - 1) |-> IF j = k THEN vec[Len(vec)] ELSE vec[j]]

\* The loop body advancing k after a removal as well.
clear_step_advancing(vec, k, removed, remove) ==
  IF vec[k] \in remove
  THEN [vec |-> swap_remove(vec, k), k |-> k + 1, removed |-> Append(removed, vec[k])]
  ELSE [vec |-> vec, k |-> k + 1, removed |-> removed]

\* One pass through the body of `while i < vec.len()`.
clear_step(vec, k, removed, remove) ==
  IF vec[k] \in remove
  THEN [vec |-> swap_remove(vec, k), k |-> k, removed |-> Append(removed, vec[k])]
  ELSE [vec |-> vec, k |-> k + 1, removed |-> removed]

RECURSIVE clear_loop(_, _, _, _)
clear_loop(vec, k, removed, remove) ==
  IF k <= Len(vec)
  THEN LET s == clear_step(vec, k, removed, remove)
       IN  clear_loop(s.vec, s.k, s.removed, remove)
  ELSE [vec |-> vec, removed |-> removed]

clear_by_cond(vec, remove) == clear_loop(vec, 1, << >>, remove)

(***************************************************************************)
(* State                                                                   *)
(***************************************************************************)
VARIABLES
  occupied,          \* World.occupied.data
  sharks,            \* World.sharks
  fishes,            \* World.fishes
  fish_repro_time,   \* World.fish_repro_time
  shark_repro_time,  \* World.shark_repro_time
  shark_starves,     \* World.shark_starves
  n_sharks,          \* the n_sharks argument World::new was called with
  n_fish,            \* the n_fish argument World::new was called with
  pc,                \* where World::update stands: "idle", "fish", "shark", "panic"
  i,                 \* the index of the next entity of the running loop
  new_fishes,        \* update's local new_fishes
  new_sharks,        \* update's local new_sharks
  fishes_to_remove,  \* update's local fishes_to_remove
  ticks,             \* the number of completed updates
  tick_start,        \* the world as it was when the running (or last) update began
  last,              \* what the last loop iteration did
  control,           \* where the closure of event_loop.run stands
  redraw_requested,  \* window.request_redraw() was called and not yet served
  entered_at,        \* the number of completed updates when the closure was entered
  drawn_at,          \* the number of completed updates at the last Sim::draw
  draws,             \* calls of Sim::draw so far
  call,              \* a function called on its own: its arguments and locals
  ret                \* what that function returned

vars ==
  << occupied, sharks, fishes, fish_repro_time, shark_repro_time, shark_starves,
     n_sharks, n_fish, pc, i, new_fishes, new_sharks, fishes_to_remove, ticks,
     tick_start, last, control, redraw_requested, entered_at,
     drawn_at, draws, call, ret >>

\* The state of main's event loop, and of a function called on its own.
loop == << control, redraw_requested, entered_at, drawn_at, draws >>
alone == << call, ret >>

params == << fish_repro_time, shark_repro_time, shark_starves, n_sharks, n_fish >>

Snapshot(board, fs, ss) == [occupied |-> board, fishes |-> fs, sharks |-> ss]

NoStep ==
  [kind |-> "none", before |-> << >>, moved |-> FALSE, ate |-> FALSE, bred |-> FALSE]

(***************************************************************************)
(* World::new                                                              *)
(***************************************************************************)
Min(a, b) == IF a <= b THEN a ELSE b

\* (0..WIDTH*HEIGHT).choose_multiple(rng, amount): the reservoir starts as the
\* first `amount` indices in order (all of them, when there are fewer), and
\* every later index may then overwrite any one slot.
choose_multiple(amount) ==
  IF amount >= Cells
  THEN { [k \in 1..Cells |-> k - 1] }
  ELSE { [k \in 1..amount |-> IF r[k] < 0 THEN k - 1 ELSE r[k]] :
           r \in { q \in [1..amount -> {-1} \cup (amount..(Cells - 1))] :
                     \A a, b \in 1..amount :
                        (q[a] = q[b] /\ q[a] >= 0) => a = b } }

\* The requests World::new is called with:
\* [n_sharks, n_fish, fish_repro_time, shark_repro_time, shark_starves].
Request(ns, nf, frt, srt, st) ==
  [n_sharks |-> ns, n_fish |-> nf, fish_repro_time |-> frt,
   shark_repro_time |-> srt, shark_starves |-> st]

Requests ==
  { Request(0, 1, 5, 2, 3), Request(1, 0, 2, 2, 3), Request(1, 1, 2, 2, 2),
    Request(1, Cells - 1, 1, 2, 1), Request(2, Cells - 2, 1, 2, 2),
    Request(Cells - 1, 1, 2, 1, 3), Request(Cells, 0, 1, 1, 2),
    Request(2, Cells - 1, 1, 2, 2), Request(0, Cells + 1, 1, 1, 1) }

\* iter.take(n): the first n elements, or all of them when there are fewer.
take(seq, n) == SubSeq(seq, 1, Min(n, Len(seq)))

\* What an iterator still yields after `n` elements were taken through by_ref().
after_take(seq, n) == SubSeq(seq, Min(n, Len(seq)) + 1, Len(seq))

\* World::new without the write of Content::Shark.
mark_board_fish_only(fish_ix, shark_ix) ==
  [ix \in DOMAIN BoardNew |->
     IF ix \in Range(fish_ix) THEN Fish ELSE BoardNew[ix]]

\* The board after the two loops of World::new wrote Fish, then Shark.
mark_board(fish_ix, shark_ix) ==
  [ix \in DOMAIN BoardNew |->
     IF ix \in Range(shark_ix) THEN Shark
     ELSE IF ix \in Range(fish_ix) THEN Fish
     ELSE BoardNew[ix]]

\* rng.gen_range(lo..=hi): any value of the inclusive range.
gen_range(lo, hi) == lo..hi

\* The worlds World::new(n_sharks, n_fish, ...) can return.
WorldNew(req) ==
  UNION
    { LET fish_ix == take(indices, req.n_fish)
          shark_ix == after_take(indices, req.n_fish)
      IN  { [occupied |-> mark_board(fish_ix, shark_ix),
             fishes |->
               [k \in 1..Len(fish_ix) |->
                  [pos |-> from_ix(fish_ix[k]), repro_time |-> ft[k]]],
             sharks |->
               [k \in 1..Len(shark_ix) |->
                  [pos |-> from_ix(shark_ix[k]), repro_time |-> st[k],
                   starve |-> 0]]]
            : ft \in [1..Len(fish_ix) -> gen_range(1, req.fish_repro_time)],
              st \in [1..Len(shark_ix) -> gen_range(1, req.shark_repro_time)] }
      : indices \in choose_multiple(req.n_fish + req.n_sharks) }

\* The state a World starts in when World::new(req) returned w.
Start(req, w) ==
  /\ occupied = w.occupied
  /\ sharks = w.sharks
  /\ fishes = w.fishes
  /\ fish_repro_time = req.fish_repro_time
  /\ shark_repro_time = req.shark_repro_time
  /\ shark_starves = req.shark_starves
  /\ n_sharks = req.n_sharks
  /\ n_fish = req.n_fish
  /\ pc = "idle"
  /\ i = 1
  /\ new_fishes = << >>
  /\ new_sharks = << >>
  /\ fishes_to_remove = {}
  /\ ticks = 0
  /\ tick_start = Snapshot(w.occupied, w.fishes, w.sharks)
  /\ last = NoStep

\* main before event_loop.run: no event has been handled yet.
LoopNew ==
  /\ control = "wait"
  /\ redraw_requested = FALSE
  /\ entered_at = 0
  /\ drawn_at = 0
  /\ draws = 0

\* No function is called on its own.
None == [fn |-> "none"]
NoCall == call = None /\ ret = None

Init ==
  \E req \in Requests :
    \E w \in WorldNew(req) : Start(req, w) /\ LoopNew /\ NoCall

(***************************************************************************)
(* World::update, the fish loop body                                       *)
(***************************************************************************)
\* The codes on which is_empty, and is_fish, answer true.
EmptyCodes == { c \in Content : is_empty(c) }

FishCodes == { c \in Content : is_fish(c) }

\* The first direction of the shuffled array whose neighbour cell holds one of
\* the codes `wanted`, as an index into `directions`, or 0 when there is none.
scan(board, pos, directions, wanted) ==
  LET hits == { k \in 1..Len(directions) :
                  get(board, offset(pos, directions[k][1], directions[k][2]))
                    \in wanted }
  IN  IF hits = {} THEN 0 ELSE CHOOSE k \in hits : \A h \in hits : k <= h

\* The fish move reading the board as it was when the update began.
fish_move_stale(board, pos, directions) ==
  LET k == scan(tick_start.occupied, pos, directions, EmptyCodes)
  IN  IF k = 0
      THEN [board |-> board, pos |-> pos]
      ELSE LET dest == offset(pos, directions[k][1], directions[k][2])
           IN  [board |-> set(set(board, pos, Empty), dest, Fish), pos |-> dest]

\* Move: the first Empty neighbour becomes Fish, the old cell Empty.
fish_move(board, pos, directions) ==
  LET k == scan(board, pos, directions, EmptyCodes)
  IN  IF k = 0
      THEN [board |-> board, pos |-> pos]
      ELSE LET dest == offset(pos, directions[k][1], directions[k][2])
           IN  [board |-> set(set(board, pos, Empty), dest, Fish), pos |-> dest]

\* Whether `t += 1` leaves the range of TimeType.
overflows(t) == t + 1 > U8Max

\* An increment by two.
wrapping_inc_twice(t) == (t + 2) % (U8Max + 1)

\* `t += 1` as a build without overflow checks computes it.
wrapping_inc(t) == (t + 1) % (U8Max + 1)

\* The fish breeding test with > for >=.
fish_breed_strict(board, start, pos, repro_time, threshold) ==
  IF start /= pos
  THEN IF wrapping_inc(repro_time) > threshold
       THEN [board |-> set(board, start, NewFish), repro_time |-> 0,
             born |-> << FishNew(start) >>, overflow |-> overflows(repro_time)]
       ELSE [board |-> board, repro_time |-> wrapping_inc(repro_time),
             born |-> << >>, overflow |-> overflows(repro_time)]
  ELSE [board |-> board, repro_time |-> repro_time, born |-> << >>,
        overflow |-> FALSE]

\* Breed if moved: the timer after the step, the fish born, the board.
fish_breed(board, start, pos, repro_time, threshold) ==
  IF start /= pos
  THEN IF wrapping_inc(repro_time) >= threshold
       THEN [board |-> set(board, start, NewFish), repro_time |-> 0,
             born |-> << FishNew(start) >>, overflow |-> overflows(repro_time)]
       ELSE [board |-> board, repro_time |-> wrapping_inc(repro_time),
             born |-> << >>, overflow |-> overflows(repro_time)]
  ELSE [board |-> board, repro_time |-> repro_time, born |-> << >>,
        overflow |-> FALSE]

(***************************************************************************)
(* World::update, the shark loop body                                      *)
(***************************************************************************)
\* The eat step without `shark.starve = 0`.
shark_eat_no_reset(board, shark, directions, eaten) ==
  LET k == scan(board, shark.pos, directions, FishCodes)
  IN  IF k = 0
      THEN [board |-> board, pos |-> shark.pos, starve |-> shark.starve,
            eaten |-> eaten]
      ELSE LET dest == offset(shark.pos, directions[k][1], directions[k][2])
           IN  [board |-> set(set(board, shark.pos, Empty), dest, FedShark),
                pos |-> dest, starve |-> shark.starve, eaten |-> eaten \cup {dest}]

\* The eat step recording the cell the shark leaves instead of the fish's.
shark_eat_records_start(board, shark, directions, eaten) ==
  LET k == scan(board, shark.pos, directions, FishCodes)
  IN  IF k = 0
      THEN [board |-> board, pos |-> shark.pos, starve |-> shark.starve,
            eaten |-> eaten]
      ELSE LET dest == offset(shark.pos, directions[k][1], directions[k][2])
           IN  [board |-> set(set(board, shark.pos, Empty), dest, FedShark),
                pos |-> dest, starve |-> 0, eaten |-> eaten \cup {shark.pos}]

\* Eat: the first fish neighbour is recorded, the shark moves onto it.
shark_eat(board, shark, directions, eaten) ==
  LET k == scan(board, shark.pos, directions, FishCodes)
  IN  IF k = 0
      THEN [board |-> board, pos |-> shark.pos, starve |-> shark.starve,
            eaten |-> eaten]
      ELSE LET dest == offset(shark.pos, directions[k][1], directions[k][2])
           IN  [board |-> set(set(board, shark.pos, Empty), dest, FedShark),
                pos |-> dest, starve |-> 0, eaten |-> eaten \cup {dest}]

\* The move step without the `start == shark.pos` test.
shark_move_always(board, start, pos, directions) ==
  LET k == scan(board, pos, directions, EmptyCodes)
  IN  IF k = 0
      THEN [board |-> board, pos |-> pos]
      ELSE LET dest == offset(pos, directions[k][1], directions[k][2])
           IN  [board |-> set(set(board, pos, Empty), dest, Shark), pos |-> dest]

\* Move if not already moved: the first Empty neighbour becomes Shark.
shark_move(board, start, pos, directions) ==
  IF start = pos
  THEN LET k == scan(board, pos, directions, EmptyCodes)
       IN  IF k = 0
           THEN [board |-> board, pos |-> pos]
           ELSE LET dest == offset(pos, directions[k][1], directions[k][2])
                IN  [board |-> set(set(board, pos, Empty), dest, Shark),
                     pos |-> dest]
  ELSE [board |-> board, pos |-> pos]

\* The shark breeding test with >= for ==.
shark_breed_at_least(board, start, pos, repro_time, threshold) ==
  IF start /= pos
  THEN IF wrapping_inc(repro_time) >= threshold
       THEN [board |-> set(board, start, NewShark), repro_time |-> 0,
             born |-> << SharkNew(start) >>, overflow |-> overflows(repro_time)]
       ELSE [board |-> board, repro_time |-> wrapping_inc(repro_time),
             born |-> << >>, overflow |-> overflows(repro_time)]
  ELSE [board |-> board, repro_time |-> repro_time, born |-> << >>,
        overflow |-> FALSE]

\* The shark breeding step without the `start != shark.pos` test.
shark_breed_unmoved(board, start, pos, repro_time, threshold) ==
  IF wrapping_inc(repro_time) = threshold
  THEN [board |-> set(board, start, NewShark), repro_time |-> 0,
        born |-> << SharkNew(start) >>, overflow |-> overflows(repro_time)]
  ELSE [board |-> board, repro_time |-> wrapping_inc(repro_time),
        born |-> << >>, overflow |-> overflows(repro_time)]

\* Breed if moved: the timer after the step, the shark born, the board.
shark_breed(board, start, pos, repro_time, threshold) ==
  IF start /= pos
  THEN IF wrapping_inc(repro_time) = threshold
       THEN [board |-> set(board, start, NewShark), repro_time |-> 0,
             born |-> << SharkNew(start) >>, overflow |-> overflows(repro_time)]
       ELSE [board |-> board, repro_time |-> wrapping_inc(repro_time),
             born |-> << >>, overflow |-> overflows(repro_time)]
  ELSE [board |-> board, repro_time |-> repro_time, born |-> << >>,
        overflow |-> FALSE]

(***************************************************************************)
(* World::update, the two compactions                                      *)
(***************************************************************************)
\* The update without the compaction of eaten fish.
clear_eaten_none(fs, eaten) == [vec |-> fs, removed |-> << >>]

\* Clear eaten fish.
clear_eaten(fs, eaten) == clear_by_cond(fs, { f \in Range(fs) : f.pos \in eaten })

\* The starvation test with > for >=.
kill_starved_late(ss, limit) ==
  clear_by_cond(ss, { s \in Range(ss) : s.starve > limit })

\* Kill starved sharks: the sharks removed, in the order of their removal.
kill_starved(ss, limit) == clear_by_cond(ss, { s \in Range(ss) : s.starve >= limit })

\* The kill loop without the write of Content::Empty.
clear_cells_kept(board, removed) == board

\* The board after the cell of every removed shark was set Empty.
RECURSIVE clear_cells(_, _)
clear_cells(board, removed) ==
  IF removed = << >>
  THEN board
  ELSE clear_cells(set(board, Head(removed).pos, Empty), Tail(removed))

(***************************************************************************)
(* Actions                                                                 *)
(***************************************************************************)
\* The number of updates the model follows a world for.
MaxTicks ==
  IF n_fish + n_sharks = 0 THEN LoopRun
  ELSE IF n_fish + n_sharks = 1 THEN LongRun
  ELSE ShortRun

\* World::update is entered: its locals are fresh, the fish loop is next.
UpdateStart ==
  /\ pc = "idle"
  /\ ticks < MaxTicks
  /\ pc' = "fish"
  /\ i' = 1
  /\ new_fishes' = << >>
  /\ new_sharks' = << >>
  /\ fishes_to_remove' = {}
  /\ tick_start' = Snapshot(occupied, fishes, sharks)
  /\ last' = NoStep
  /\ UNCHANGED << occupied, sharks, fishes, ticks, params, loop, alone >>

\* One iteration of `for fish in &mut self.fishes`.
FishStep ==
  /\ pc = "fish"
  /\ i <= Len(fishes)
  /\ \E directions \in Shuffles :
     \E fish \in {fishes[i]} : \E m \in {fish_move(occupied, fish.pos, directions)} :
        \E b \in {fish_breed(m.board, fish.pos, m.pos, fish.repro_time,
                           fish_repro_time)} :
           \/ /\ occupied' = b.board
              /\ fishes' = [fishes EXCEPT
                              ![i] = [pos |-> m.pos, repro_time |-> b.repro_time]]
              /\ new_fishes' = new_fishes \o b.born
              /\ i' = i + 1
              /\ last' = [kind |-> "fish", before |-> fish,
                          moved |-> fish.pos /= m.pos, ate |-> FALSE,
                          bred |-> b.born /= << >>]
              /\ UNCHANGED << sharks, pc, new_sharks, fishes_to_remove, ticks,
                              tick_start, params, loop, alone >>
           \/ /\ b.overflow
              /\ pc' = "panic"
              /\ UNCHANGED << occupied, sharks, fishes, i, new_fishes,
                              new_sharks, fishes_to_remove, ticks, tick_start,
                              last, params, loop, alone >>

\* The fish loop is over: self.fishes.extend(new_fishes), then the locals of
\* the shark loop are created.
FishPhaseEnd ==
  /\ pc = "fish"
  /\ i > Len(fishes)
  /\ fishes' = fishes \o new_fishes
  /\ pc' = "shark"
  /\ i' = 1
  /\ fishes_to_remove' = {}
  /\ new_sharks' = << >>
  /\ last' = NoStep
  /\ UNCHANGED << occupied, sharks, new_fishes, ticks, tick_start, params, loop, alone >>

\* One iteration of `for shark in &mut self.sharks`.
SharkStep ==
  /\ pc = "shark"
  /\ i <= Len(sharks)
  /\ \E directions \in Shuffles :
     \E shark \in {sharks[i]} : \E e \in {shark_eat(occupied, shark, directions, fishes_to_remove)} :
        \E m \in {shark_move(e.board, shark.pos, e.pos, directions)} :
         \E b \in {shark_breed(m.board, shark.pos, m.pos, shark.repro_time,
                            shark_repro_time)} :
           \/ /\ occupied' = b.board
              /\ sharks' = [sharks EXCEPT
                              ![i] = [pos |-> m.pos, repro_time |-> b.repro_time,
                                      starve |-> wrapping_inc(e.starve)]]
              /\ new_sharks' = new_sharks \o b.born
              /\ fishes_to_remove' = e.eaten
              /\ i' = i + 1
              /\ last' = [kind |-> "shark", before |-> shark,
                          moved |-> shark.pos /= m.pos,
                          ate |-> shark.pos /= e.pos,
                          bred |-> b.born /= << >>]
              /\ UNCHANGED << fishes, pc, new_fishes, ticks, tick_start, params, loop, alone >>
           \/ /\ b.overflow \/ overflows(e.starve)
              /\ pc' = "panic"
              /\ UNCHANGED << occupied, sharks, fishes, i, new_fishes,
                              new_sharks, fishes_to_remove, ticks, tick_start,
                              last, params, loop, alone >>

\* The shark loop is over: self.sharks.extend(new_sharks), then eaten fish are
\* cleared and starved sharks killed.
UpdateEnd ==
  /\ pc = "shark"
  /\ i > Len(sharks)
  /\ LET killed == kill_starved(sharks \o new_sharks, shark_starves)
     IN  /\ fishes' = clear_eaten(fishes, fishes_to_remove).vec
         /\ sharks' = killed.vec
         /\ occupied' = clear_cells(occupied, killed.removed)
  /\ pc' = "idle"
  /\ i' = 1
  /\ ticks' = ticks + 1
  /\ last' = NoStep
  /\ UNCHANGED << new_fishes, new_sharks, fishes_to_remove, tick_start, params, loop, alone >>

Next ==
  \/ UpdateStart
  \/ FishStep
  \/ FishPhaseEnd
  \/ SharkStep
  \/ UpdateEnd

Spec == Init /\ [][Next]_vars

(***************************************************************************)
(* Worlds whose thresholds sit at the top of TimeType                      *)
(***************************************************************************)
\* World::new takes any TimeType threshold; these calls use the largest ones.
RequestsU8 ==
  { Request(0, 1, U8Max, 2, 3), Request(1, 0, 2, U8Max, 3),
    Request(1, 0, 2, U8Max - 1, 3) }

\* Of the worlds World::new can return, those whose timers were drawn from the
\* top two values of their range.
DrawnHigh(req, w) ==
  /\ \A k \in 1..Len(w.fishes) : w.fishes[k].repro_time >= req.fish_repro_time - 1
  /\ \A k \in 1..Len(w.sharks) : w.sharks[k].repro_time >= req.shark_repro_time - 1

InitU8 ==
  \E req \in RequestsU8 :
    \E w \in WorldNew(req) :
      DrawnHigh(req, w) /\ Start(req, w) /\ LoopNew /\ NoCall

SpecU8 == InitU8 /\ [][Next]_vars

(***************************************************************************)
(* Point::offset called on its own, in builds of every grid size           *)
(***************************************************************************)
\* The world of World::new(0, 0, 1, 1, 1): no entity, nothing to update.
Bare == Request(0, 0, 1, 1, 1)

\* The calls offset(p, dx, dy) World::update makes: p on the grid, (dx, dy)
\* one of the four directions, in a build of w by h cells.
OffsetCalls ==
  { [fn |-> "offset", w |-> w, h |-> h, p |-> [x |-> x, y |-> y],
     dx |-> Directions[k][1], dy |-> Directions[k][2]]
      : w \in 1..MaxSide, h \in 1..MaxSide, x \in 0..(MaxSide - 1),
        y \in 0..(MaxSide - 1), k \in 1..4 }

InitOffset ==
  /\ \E w \in WorldNew(Bare) : Start(Bare, w)
  /\ LoopNew
  /\ call \in { c \in OffsetCalls : c.p.x < c.w /\ c.p.y < c.h }
  /\ ret = None

CallOffset ==
  /\ call.fn = "offset"
  /\ ret = None
  /\ ret' = [fn |-> "offset",
             point |-> offset_on(call.w, call.h, call.p, call.dx, call.dy)]
  /\ UNCHANGED << occupied, sharks, fishes, pc, i, new_fishes, new_sharks,
                  fishes_to_remove, ticks, tick_start, last, params, loop, call >>

SpecOffset == InitOffset /\ [][CallOffset]_vars

(***************************************************************************)
(* clear_by_cond called on its own, stepped one pass of its loop at a time *)
(***************************************************************************)
\* The vectors the function is called on: every sequence of at most MaxLen
\* values out of 1..MaxLen, repeated values included.
Vectors == UNION { [1..n -> 1..MaxLen] : n \in 0..MaxLen }

\* clear_by_cond(vec, should_remove) has been entered: i = 0, removed empty.
InitClear ==
  /\ \E w \in WorldNew(Bare) : Start(Bare, w)
  /\ LoopNew
  /\ \E vec \in Vectors : \E remove \in SUBSET (1..MaxLen) :
       call = [fn |-> "clear_by_cond", input |-> vec, remove |-> remove,
               vec |-> vec, k |-> 1, removed |-> << >>]
  /\ ret = None

ClearStep ==
  /\ call.fn = "clear_by_cond"
  /\ ret = None
  /\ call.k <= Len(call.vec)
  /\ \E s \in {clear_step(call.vec, call.k, call.removed, call.remove)} :
       call' = [call EXCEPT !.vec = s.vec, !.k = s.k, !.removed = s.removed]
  /\ UNCHANGED << occupied, sharks, fishes, pc, i, new_fishes, new_sharks,
                  fishes_to_remove, ticks, tick_start, last, params, loop, ret >>

\* The loop is over: `removed` is returned.
ClearReturn ==
  /\ call.fn = "clear_by_cond"
  /\ ret = None
  /\ call.k > Len(call.vec)
  /\ ret' = [fn |-> "clear_by_cond", removed |-> call.removed]
  /\ UNCHANGED << occupied, sharks, fishes, pc, i, new_fishes, new_sharks,
                  fishes_to_remove, ticks, tick_start, last, params, loop, call >>

NextClear == ClearStep \/ ClearReturn

\* A running call keeps running: the loop is sequential code.
SpecClear == InitClear /\ [][NextClear]_vars /\ WF_vars(NextClear)

(***************************************************************************)
(* main: the closure of event_loop.run, one event at a time                *)
(***************************************************************************)
\* The worlds the event loop is followed on.
RequestsLoop == { Bare, Request(0, 1, 5, 2, 3), Request(1, 0, 2, 2, 3) }

InitLoop ==
  \E req \in RequestsLoop :
    \E w \in WorldNew(req) : Start(req, w) /\ LoopNew /\ NoCall

\* The closure is entered with Event::RedrawRequested, which the window
\* delivers after window.request_redraw(): pixels.render() fails and the loop
\* exits, or sim.update() is next.
RedrawRequested ==
  /\ control = "wait"
  /\ redraw_requested
  /\ redraw_requested' = FALSE
  /\ \/ control' = "exit" /\ UNCHANGED entered_at
     \/ control' = "redraw" /\ entered_at' = ticks
  /\ UNCHANGED << occupied, sharks, fishes, pc, i, new_fishes, new_sharks,
                  fishes_to_remove, ticks, tick_start, last, params, drawn_at,
                  draws, alone >>

\* The closure is entered with an event on which input.update(&event) answers
\* true: a close request or a failed resize exits, otherwise sim.update() is
\* next.
InputUpdate ==
  /\ control = "wait"
  /\ \/ control' = "exit" /\ UNCHANGED entered_at
     \/ control' = "input" /\ entered_at' = ticks
  /\ UNCHANGED << occupied, sharks, fishes, pc, i, new_fishes, new_sharks,
                  fishes_to_remove, ticks, tick_start, last, params,
                  redraw_requested, drawn_at, draws, alone >>

\* sim.update(), called by either branch of the closure, runs World::update.
SimUpdate ==
  /\ control \in {"redraw", "input"}
  /\ ticks = entered_at
  /\ Next

\* The redraw branch after sim.update(): sim.draw(frame), then
\* window.request_redraw(); input.update(&event) answers false on this event.
SimDraw ==
  /\ control = "redraw"
  /\ pc = "idle"
  /\ ticks = entered_at + 1
  /\ draws' = draws + 1
  /\ drawn_at' = ticks
  /\ redraw_requested' = TRUE
  /\ control' = "wait"
  /\ UNCHANGED << occupied, sharks, fishes, pc, i, new_fishes, new_sharks,
                  fishes_to_remove, ticks, tick_start, last, params,
                  entered_at, alone >>

\* The input branch after sim.update(): window.request_redraw().
InputDone ==
  /\ control = "input"
  /\ pc = "idle"
  /\ ticks = entered_at + 1
  /\ redraw_requested' = TRUE
  /\ control' = "wait"
  /\ UNCHANGED << occupied, sharks, fishes, pc, i, new_fishes, new_sharks,
                  fishes_to_remove, ticks, tick_start, last, params,
                  entered_at, drawn_at, draws, alone >>

NextLoop ==
  \/ RedrawRequested
  \/ InputUpdate
  \/ SimUpdate
  \/ SimDraw
  \/ InputDone

SpecLoop == InitLoop /\ [][NextLoop]_vars

(***************************************************************************)
(* Vocabulary of the properties                                            *)
(***************************************************************************)
\* A tick boundary: World::new has returned, or an update has completed.
AtBoundary == pc = "idle"

AfterUpdate == pc = "idle" /\ ticks >= 1

AfterNew == pc = "idle" /\ ticks = 0

WithinCapacity == n_fish + n_sharks <= Cells

Positions(seq) == { seq[k].pos : k \in 1..Len(seq) }

\* How many entities of the two lists stand on the cell with index ix.
EntitiesOn(fs, ss, ix) ==
  Cardinality({ k \in 1..Len(fs) : index(fs[k].pos) = ix })
    + Cardinality({ k \in 1..Len(ss) : index(ss[k].pos) = ix })

\* C1: at every tick boundary of a world built within capacity, every fish
\* stands on a Fish or NewFish cell, every shark on a Shark, NewShark or
\* FedShark cell, and every non-Empty cell holds exactly one entity.
BoardListsAgree ==
  (AtBoundary /\ WithinCapacity) =>
    /\ \A k \in 1..Len(fishes) : get(occupied, fishes[k].pos) \in {Fish, NewFish}
    /\ \A k \in 1..Len(sharks) :
         get(occupied, sharks[k].pos) \in {Shark, NewShark, FedShark}
    /\ \A ix \in DOMAIN occupied :
         occupied[ix] /= Empty => EntitiesOn(fishes, sharks, ix) = 1

\* A boundary after a tick in which a fish was eaten and a starved shark was
\* removed, with both species still alive.
BoardListsAgreeWitness ==
  /\ AfterUpdate
  /\ WithinCapacity
  /\ fishes_to_remove /= {}
  /\ Len(sharks) < Len(tick_start.sharks) + Len(new_sharks)
  /\ fishes /= << >>
  /\ sharks /= << >>

\* C2: after every completed update no two entities of the two lists share a
\* position, so the two lists together are no longer than the grid has cells.
NoSharedPosition ==
  AfterUpdate =>
    /\ \A ix \in DOMAIN occupied : EntitiesOn(fishes, sharks, ix) <= 1
    /\ Len(fishes) + Len(sharks) <= Cells

\* A boundary after a tick in which a shark moved onto a fish it ate, with
\* fish left over.
NoSharedPositionWitness ==
  /\ AfterUpdate
  /\ fishes_to_remove /= {}
  /\ fishes /= << >>
  /\ \E k \in 1..Len(sharks) : sharks[k].pos \in fishes_to_remove

\* C3: World::new called with n_fish + n_sharks above the capacity fails; it
\* never returns a world with fewer fish or sharks than requested.  (The
\* states with ticks = 0 are the worlds World::new returned.)
NewRejectsOverCapacity ==
  (AfterNew /\ ~WithinCapacity) =>
    /\ Len(fishes) = n_fish
    /\ Len(sharks) = n_sharks

\* C4: World::new called within capacity returns exactly n_fish fish and
\* n_sharks sharks on pairwise distinct cells, fish cells coded Fish, shark
\* cells coded Shark, every other cell Empty, fish timers in
\* [1, fish_repro_time], shark timers in [1, shark_repro_time], starve 0.
NewPopulatesAsRequested ==
  (AfterNew /\ WithinCapacity) =>
    /\ Len(fishes) = n_fish
    /\ Len(sharks) = n_sharks
    /\ \A ix \in DOMAIN occupied : EntitiesOn(fishes, sharks, ix) <= 1
    /\ \A ix \in DOMAIN occupied :
         occupied[ix] = IF from_ix(ix) \in Positions(fishes) THEN Fish
                        ELSE IF from_ix(ix) \in Positions(sharks) THEN Shark
                        ELSE Empty
    /\ \A k \in 1..Len(fishes) :
         fishes[k].repro_time >= 1 /\ fishes[k].repro_time <= fish_repro_time
    /\ \A k \in 1..Len(sharks) :
         /\ sharks[k].repro_time >= 1
         /\ sharks[k].repro_time <= shark_repro_time
         /\ sharks[k].starve = 0

\* World::new has returned a world with fish and sharks, requested within
\* capacity, whose indices were drawn out of order.
NewPopulatesAsRequestedWitness ==
  /\ AfterNew
  /\ WithinCapacity
  /\ n_fish >= 1
  /\ n_sharks >= 1
  /\ index(fishes[1].pos) > index(sharks[1].pos)

\* C5: after a completed update a cell is NewFish only if a fish was born on
\* it in that tick, NewShark only if a shark was born on it in that tick and
\* FedShark only if a shark ate onto it in that tick.
MarkersAreOfThisTick ==
  AfterUpdate =>
    \A ix \in DOMAIN occupied :
      /\ occupied[ix] = NewFish => from_ix(ix) \in Positions(new_fishes)
      /\ occupied[ix] = NewShark => from_ix(ix) \in Positions(new_sharks)
      /\ occupied[ix] = FedShark => from_ix(ix) \in fishes_to_remove

\* The four cells a step from p can reach.
Neighbours(p) == { offset(p, Directions[k][1], Directions[k][2]) : k \in 1..4 }

\* How often the value e occurs in seq.
Count(seq, e) == Cardinality({ k \in 1..Len(seq) : seq[k] = e })

\* The step just taken was the end of the shark loop and the compactions.
IsUpdateEnd == pc = "shark" /\ pc' = "idle"

\* The step just taken was one completed iteration of the fish loop.
IsFishStep == pc = "fish" /\ pc' = "fish" /\ i' = i + 1

\* The step just taken was one completed iteration of the shark loop.
IsSharkStep == pc = "shark" /\ pc' = "shark" /\ i' = i + 1

\* C6, at the boundaries: every live shark has starve < shark_starves; and in
\* a world without fish, where no shark ever eats, the sharks World::new made
\* are all present with starve = ticks while ticks < shark_starves and all
\* absent from then on.
StarvedAreGone ==
  AtBoundary =>
    /\ \A k \in 1..Len(sharks) : sharks[k].starve < shark_starves
    /\ n_fish = 0 =>
         /\ \A k \in 1..Len(sharks) : sharks[k].starve <= ticks
         /\ Cardinality({ k \in 1..Len(sharks) : sharks[k].starve = ticks })
              = IF ticks < shark_starves THEN Min(n_sharks, Cells) ELSE 0

\* C6, at the end of an update: the sharks removed are exactly those whose
\* starve has reached shark_starves, and the cell of each is Empty afterwards.
StarvedAreKilled ==
  IsUpdateEnd =>
    LET all == sharks \o new_sharks
    IN  /\ \A s \in Range(all) \cup Range(sharks') :
             Count(sharks', s)
               = IF s.starve < shark_starves THEN Count(all, s) ELSE 0
        /\ \A s \in Range(all) :
             s.starve >= shark_starves => get(occupied', s.pos) = Empty

\* C6: a shark is removed in exactly the tick in which its starvation timer
\* reaches shark_starves, and its cell becomes Empty; a shark that never eats
\* is gone after shark_starves ticks and not before.
StarvationExact == [] StarvedAreGone /\ [][StarvedAreKilled]_vars

\* A shark of a fishless world with limit 3 entered its third tick with
\* starve 2 and is gone at the end of it.
StarvationExactWitness ==
  /\ AfterUpdate
  /\ n_fish = 0
  /\ shark_starves = 3
  /\ ticks = 3
  /\ \E k \in 1..Len(tick_start.sharks) : tick_start.sharks[k].starve = 2

P00 == [x |-> 0, y |-> 0]
P10 == [x |-> 1, y |-> 0]
P01 == [x |-> 0, y |-> 1]
P11 == [x |-> 1, y |-> 1]

\* The world of scenario B: a shark at (0,0), a fish at (1,0), (0,1) Empty.
ScenarioB(w) ==
  /\ P00 \in Positions(w.sharks)
  /\ P10 \in Positions(w.fishes)
  /\ get(w.occupied, P01) = Empty

\* C7 as stated: one update after scenario B the shark is at (1,0), coded
\* FedShark, with starve 0, (0,0) is Empty and no fish is at (1,0).
ScenarioBAsStated ==
  (AfterUpdate /\ ScenarioB(tick_start)) =>
    /\ \E k \in 1..Len(sharks) : sharks[k].pos = P10 /\ sharks[k].starve = 0
    /\ get(occupied, P10) = FedShark
    /\ get(occupied, P00) = Empty
    /\ P10 \notin Positions(fishes)

\* C7 amended, the shark's iteration: a shark at (0,0) whose only fish
\* neighbour, when its turn comes, is (1,0) moves there; (1,0) becomes
\* FedShark and is recorded as eaten, (0,0) becomes Empty (NewShark when the
\* shark bred), and the starvation timer is 1.
SharkEatsItsOnlyFish ==
  (/\ IsSharkStep
   /\ sharks[i].pos = P00
   /\ \A q \in Neighbours(P00) : is_fish(get(occupied, q)) <=> q = P10) =>
    /\ sharks'[i].pos = P10
    /\ sharks'[i].starve = 1
    /\ get(occupied', P10) = FedShark
    /\ get(occupied', P00) =
         IF Len(new_sharks') > Len(new_sharks) THEN NewShark ELSE Empty
    /\ P10 \in fishes_to_remove'

\* C7 amended, the end of that update: no fish is left at (1,0), and unless
\* shark_starves is 1 the cell is FedShark and holds a shark with starve 1.
EatenAtP10 ==
  (AfterUpdate /\ P10 \in fishes_to_remove) =>
    /\ P10 \notin Positions(fishes)
    /\ shark_starves > 1 =>
         /\ get(occupied, P10) = FedShark
         /\ \E k \in 1..Len(sharks) : sharks[k].pos = P10 /\ sharks[k].starve = 1

\* C7 amended.
ScenarioBAmended == [] EatenAtP10 /\ [][SharkEatsItsOnlyFish]_vars

\* The shark of scenario B has just taken its turn: it started at (0,0), its
\* only fish neighbour was (1,0), and it ate there.
ScenarioBWitness ==
  /\ pc = "shark"
  /\ ScenarioB(tick_start)
  /\ last.kind = "shark"
  /\ last.before.pos = P00
  /\ last.ate
  /\ sharks[i - 1].pos = P10
  /\ \A q \in Neighbours(P00) \ {P10} : ~is_fish(get(occupied, q))
  /\ shark_starves > 1

\* C8: one update after a world holding a single fish at (1,1) with timer
\* fish_repro_time - 1, fish_repro_time = 5, the fish is on a neighbour of
\* (1,1) coded Fish, (1,1) is NewFish and holds a new fish with timer 0, and
\* there are exactly 2 fish.
ScenarioA ==
  (/\ AfterUpdate
   /\ fish_repro_time = 5
   /\ tick_start.sharks = << >>
   /\ tick_start.fishes = << [pos |-> P11, repro_time |-> fish_repro_time - 1] >>) =>
    /\ Len(fishes) = 2
    /\ fishes[1].pos \in Neighbours(P11)
    /\ fishes[1].pos /= P11
    /\ get(occupied, fishes[1].pos) = Fish
    /\ get(occupied, P11) = NewFish
    /\ fishes[2] = [pos |-> P11, repro_time |-> 0]

\* The first update of scenario A has completed.
ScenarioAWitness ==
  /\ AfterUpdate
  /\ fish_repro_time = 5
  /\ tick_start.sharks = << >>
  /\ tick_start.fishes = << [pos |-> P11, repro_time |-> 4] >>
  /\ Len(fishes) = 2

\* C9, during the loops: an iteration visits only an entity that was in the
\* list when the update began, and leaves the entities born so far as they
\* were born.
NewbornsAreSkipped ==
  /\ IsFishStep =>
       /\ i <= Len(tick_start.fishes)
       /\ Len(fishes') = Len(tick_start.fishes)
       /\ SubSeq(new_fishes', 1, Len(new_fishes)) = new_fishes
  /\ IsSharkStep =>
       /\ i <= Len(tick_start.sharks)
       /\ Len(sharks') = Len(tick_start.sharks)
       /\ SubSeq(new_sharks', 1, Len(new_sharks)) = new_sharks

\* C9, at the end of the birth tick: every fish born in the tick and not
\* eaten is in `fishes` at its birth cell, coded NewFish, with timer 0, and
\* every shark born in the tick is in `sharks` at its birth cell, coded
\* NewShark, with both timers 0.
NewbornsAreUntouched ==
  AfterUpdate =>
    /\ \A k \in 1..Len(new_fishes) :
         new_fishes[k].pos \notin fishes_to_remove =>
           /\ Count(fishes, [pos |-> new_fishes[k].pos, repro_time |-> 0]) = 1
           /\ get(occupied, new_fishes[k].pos) = NewFish
    /\ \A k \in 1..Len(new_sharks) :
         /\ Count(sharks, [pos |-> new_sharks[k].pos, repro_time |-> 0,
                           starve |-> 0]) = 1
         /\ get(occupied, new_sharks[k].pos) = NewShark

\* C9: an entity born during a tick is not processed in that tick.
NoDoubleStep == [] NewbornsAreUntouched /\ [][NewbornsAreSkipped]_vars

\* A tick has completed in which a fish and a shark were born, and the
\* newborn fish was not eaten.
NoDoubleStepWitness ==
  /\ AfterUpdate
  /\ new_sharks /= << >>
  /\ \E k \in 1..Len(new_fishes) : new_fishes[k].pos \notin fishes_to_remove

\* Every neighbour of p is non-Empty.
Trapped(board, p) == \A q \in Neighbours(p) : ~is_empty(get(board, q))

\* No neighbour of p is Empty or holds a fish.
Stuck(board, p) ==
  \A q \in Neighbours(p) : ~is_empty(get(board, q)) /\ ~is_fish(get(board, q))

\* C10: a fish with no Empty neighbour when its turn comes keeps its position
\* and its reproduction timer and has no offspring; so does a shark that has
\* neither a fish nor an Empty cell next to it.
BreedingNeedsMovement ==
  /\ (IsFishStep /\ Trapped(occupied, fishes[i].pos)) =>
       /\ fishes'[i] = fishes[i]
       /\ new_fishes' = new_fishes
  /\ (IsSharkStep /\ Stuck(occupied, sharks[i].pos)) =>
       /\ sharks'[i].pos = sharks[i].pos
       /\ sharks'[i].repro_time = sharks[i].repro_time
       /\ new_sharks' = new_sharks

\* C10 as a property of every step.
BreedingRequiresMovement == [][BreedingNeedsMovement]_vars

\* A shark has just been processed without eating or moving, in a tick in
\* which a fish with timer one below the threshold was processed trapped.
BreedingRequiresMovementWitness ==
  /\ pc = "shark"
  /\ last.kind = "shark"
  /\ ~last.moved
  /\ \E k \in 1..Len(tick_start.fishes) :
       /\ tick_start.fishes[k].repro_time + 1 >= fish_repro_time
       /\ Trapped(tick_start.occupied, tick_start.fishes[k].pos)
       /\ \A q \in Neighbours(tick_start.fishes[k].pos) :
            is_shark(get(tick_start.occupied, q))
       /\ fishes[k] = tick_start.fishes[k]

\* The neighbours of p that hold a fish on `board`.
FishNeighbours(board, p) == { q \in Neighbours(p) : is_fish(get(board, q)) }

\* The neighbours of p that are Empty on `board`.
EmptyNeighbours(board, p) == { q \in Neighbours(p) : is_empty(get(board, q)) }

\* C11: a shark that has a fish neighbour when its turn comes moves onto one
\* of its fish neighbours, which becomes FedShark and is recorded as eaten;
\* it does not step onto a cell that was Empty.
SharkWithFishEats ==
  (IsSharkStep /\ FishNeighbours(occupied, sharks[i].pos) /= {}) =>
    /\ sharks'[i].pos \in FishNeighbours(occupied, sharks[i].pos)
    /\ sharks'[i].pos \notin EmptyNeighbours(occupied, sharks[i].pos)
    /\ get(occupied', sharks'[i].pos) = FedShark
    /\ fishes_to_remove' = fishes_to_remove \cup {sharks'[i].pos}
    /\ \A q \in EmptyNeighbours(occupied, sharks[i].pos) : get(occupied', q) = Empty

\* C11 as a property of every step.
EatPrecedence == [][SharkWithFishEats]_vars

\* A shark has just eaten although a neighbour of its start cell was Empty.
EatPrecedenceWitness ==
  /\ pc = "shark"
  /\ last.kind = "shark"
  /\ last.ate
  /\ get(occupied, sharks[i - 1].pos) = FedShark
  /\ EmptyNeighbours(occupied, last.before.pos) /= {}

\* The shark iteration just taken was an eat event.
IsEatStep ==
  /\ IsSharkStep
  /\ sharks'[i].pos /= sharks[i].pos
  /\ get(occupied', sharks'[i].pos) = FedShark

\* C12, during the shark loop: a shark never eats at a position that is
\* already in the eaten set.
EatsAtFreshPosition ==
  IsEatStep =>
    /\ sharks'[i].pos \notin fishes_to_remove
    /\ Cardinality(fishes_to_remove') = Cardinality(fishes_to_remove) + 1

\* C12, at the end of the update: the fish removed are exactly those whose
\* position is in the eaten set.
EatenAreCleared ==
  IsUpdateEnd =>
    \A f \in Range(fishes) \cup Range(fishes') :
      Count(fishes', f)
        = IF f.pos \in fishes_to_remove THEN 0 ELSE Count(fishes, f)

\* C12, the states: while the shark loop runs every eaten position is the
\* position of exactly one fish of `fishes`, and after the update `fishes`
\* has its length at the start plus the fish born minus the positions eaten.
EatenOnce ==
  /\ pc = "shark" =>
       \A p \in fishes_to_remove :
         Cardinality({ k \in 1..Len(fishes) : fishes[k].pos = p }) = 1
  /\ AfterUpdate =>
       Len(fishes) = Len(tick_start.fishes) + Len(new_fishes)
                       - Cardinality(fishes_to_remove)

\* C12: no fish is eaten twice, and the compaction removes exactly the eaten.
NoFishEatenTwice ==
  [] EatenOnce /\ [][EatsAtFreshPosition /\ EatenAreCleared]_vars

\* An update has completed in which two sharks ate and fish survive.
NoFishEatenTwiceWitness ==
  /\ AfterUpdate
  /\ Cardinality(fishes_to_remove) >= 2
  /\ fishes /= << >>

\* C13: ticking never raises a runtime error: every board access is in range
\* and no increment of a TimeType timer (fish repro, shark repro, shark
\* starvation) leaves the range of u8.
BoardAccessInRange ==
  \A p \in Positions(fishes) \cup Positions(sharks) :
    /\ index(p) \in DOMAIN occupied
    /\ \A k \in 1..4 :
         index(offset(p, Directions[k][1], Directions[k][2])) \in DOMAIN occupied
NoRuntimeError == BoardAccessInRange /\ pc /= "panic"

\* C14: every iteration of the shark loop leaves its shark with a starvation
\* counter of 1 if it ate (the eat step reset it to 0 before the increment)
\* and of one more than before otherwise, and touches no other shark; the end
\* of the update changes no counter, it only drops sharks.
StarveCounted ==
  IsSharkStep =>
    /\ sharks'[i].starve = IF IsEatStep THEN 1 ELSE sharks[i].starve + 1
    /\ \A k \in 1..Len(sharks) : k /= i => sharks'[k] = sharks[k]
StarveOnlyInSharkLoop ==
  /\ IsUpdateEnd =>
       \A k \in 1..Len(sharks') : \E j \in 1..Len(sharks \o new_sharks) :
          sharks'[k] = (sharks \o new_sharks)[j]
  /\ ~IsSharkStep /\ ~IsUpdateEnd => sharks' = sharks
StarvationBookkeeping == [][StarveCounted /\ StarveOnlyInSharkLoop]_vars
\* Every shark went hungry into an update, and one of them ate in it: its
\* counter is 1 again at the boundary.
StarvationBookkeepingWitness ==
  /\ AfterUpdate
  /\ \A j \in 1..Len(tick_start.sharks) : tick_start.sharks[j].starve >= 1
  /\ \E k \in 1..Len(sharks) :
       get(occupied, sharks[k].pos) = FedShark /\ sharks[k].starve = 1

\* A TimeType timer after one increment, as a value of TimeType.
Incremented(t) == (t + 1) % (U8Max + 1)

\* C15: a shark that ate or relocated has its reproduction timer incremented
\* by 1 and spawns an offspring exactly when the incremented timer equals
\* shark_repro_time: then its timer is 0, a shark with both timers 0 is
\* appended at the vacated start cell and that cell is coded NewShark. An
\* incremented timer above the threshold spawns nothing.
SharkBreedsAtEquality ==
  IsSharkStep /\ sharks'[i].pos /= sharks[i].pos =>
    IF Incremented(sharks[i].repro_time) = shark_repro_time
    THEN /\ sharks'[i].repro_time = 0
         /\ new_sharks' = Append(new_sharks, [pos |-> sharks[i].pos,
                                              repro_time |-> 0, starve |-> 0])
         /\ get(occupied', sharks[i].pos) = NewShark
    ELSE /\ sharks'[i].repro_time = Incremented(sharks[i].repro_time)
         /\ new_sharks' = new_sharks
         /\ get(occupied', sharks[i].pos) = Empty
SharkBreedingExact == [][SharkBreedsAtEquality]_vars
\* In one update a shark bred, and another moved with its timer already at
\* the threshold and so carries a timer above it.
SharkBreedingExactWitness ==
  /\ AfterUpdate
  /\ new_sharks /= << >>
  /\ \E k \in 1..Len(sharks) :
       /\ sharks[k].repro_time > shark_repro_time
       /\ sharks[k].pos \notin Positions(tick_start.sharks)

\* C16: a fish moves exactly when one of its four neighbours is Empty on the
\* board as the fish processed before it in the same phase left it; it lands
\* on one of those Empty neighbours, which becomes Fish, and its old cell
\* becomes Empty, or NewFish with a newborn fish of timer 0 and its own timer
\* reset to 0 when its incremented timer is >= fish_repro_time.
FishMovesIfItCan ==
  IsFishStep =>
    IF EmptyNeighbours(occupied, fishes[i].pos) = {}
    THEN /\ fishes'[i] = fishes[i]
         /\ occupied' = occupied
         /\ new_fishes' = new_fishes
    ELSE /\ fishes'[i].pos \in EmptyNeighbours(occupied, fishes[i].pos)
         /\ get(occupied', fishes'[i].pos) = Fish
         /\ \A ix \in DOMAIN occupied :
              ix \notin {index(fishes[i].pos), index(fishes'[i].pos)}
                => occupied'[ix] = occupied[ix]
         /\ IF Incremented(fishes[i].repro_time) >= fish_repro_time
            THEN /\ get(occupied', fishes[i].pos) = NewFish
                 /\ new_fishes' = Append(new_fishes, [pos |-> fishes[i].pos,
                                                      repro_time |-> 0])
                 /\ fishes'[i].repro_time = 0
            ELSE /\ get(occupied', fishes[i].pos) = Empty
                 /\ new_fishes' = new_fishes
FishMovement == [][FishMovesIfItCan]_vars
\* A fish has just moved onto a cell that was occupied when the update began:
\* an earlier fish of the same phase vacated it.
FishMovementWitness ==
  /\ pc = "fish"
  /\ last.kind = "fish"
  /\ last.moved
  /\ get(tick_start.occupied, fishes[i - 1].pos) /= Empty

\* C17: for every grid size >= 1, every position p on the grid and each of
\* the four unit moves, Point::offset(p, dx, dy) is ((p.x + dx) mod WIDTH,
\* (p.y + dy) mod HEIGHT) under the non-negative modulo, hence on the grid.
OffsetIsTrueModulo ==
  ret.fn = "offset" =>
    /\ ret.point = [x |-> (call.p.x + call.dx) % call.w,
                    y |-> (call.p.y + call.dy) % call.h]
    /\ ret.point.x \in 0..(call.w - 1)
    /\ ret.point.y \in 0..(call.h - 1)
\* offset has wrapped a coordinate below zero around a grid of one column.
OffsetIsTrueModuloWitness ==
  /\ ret.fn = "offset"
  /\ call.w = 1
  /\ call.dx = -1
  /\ call.h > 1
  /\ call.p.y = call.h - 1

\* C18: clear_by_cond terminates on every vector and predicate; at its return
\* the vector holds exactly the elements that do not satisfy the predicate and
\* the returned vector exactly those that do, the two together being a
\* permutation of the original; and a pass that removes leaves the index
\* where it is, so that the element swapped in is tested next.
ClearReturned == ret.fn = "clear_by_cond"
ClearPartitions ==
  ClearReturned =>
    /\ \A k \in 1..Len(call.vec) : call.vec[k] \notin call.remove
    /\ \A k \in 1..Len(ret.removed) : ret.removed[k] \in call.remove
    /\ \A v \in 1..MaxLen :
         Count(call.vec, v) + Count(ret.removed, v) = Count(call.input, v)
ClearRetests ==
  call.fn = "clear_by_cond" /\ Len(call'.vec) < Len(call.vec) =>
    /\ call'.k = call.k
    /\ call.k <= Len(call'.vec) => call'.vec[call.k] = call.vec[Len(call.vec)]
ClearByCondCorrect ==
  /\ <>ClearReturned
  /\ []ClearPartitions
  /\ [][ClearRetests]_vars
\* The call has returned after removing an element whose slot was refilled by
\* another element that had to go too.
ClearByCondCorrectWitness ==
  /\ ClearReturned
  /\ Len(call.input) = MaxLen
  /\ call.input[1] \in call.remove
  /\ call.input[MaxLen] \in call.remove
  /\ call.input[2] \notin call.remove

\* C19: between any two consecutive calls of Sim::draw there is exactly one
\* call of Sim::update: a draw that is not the first follows the previous one
\* by one update.
OneUpdateBetweenDraws == draws' = draws + 1 /\ draws >= 1 => ticks - drawn_at = 1
OneUpdatePerFrame == [][OneUpdateBetweenDraws]_vars

\* C20: at every tick boundary, after World::new and after every update, the
\* reproduction timer of every live shark is at most shark_repro_time.
SharkTimerWithinThreshold ==
  AtBoundary => \A k \in 1..Len(sharks) : sharks[k].repro_time <= shark_repro_time

=============================================================================
